---------------------------- MODULE Spec2Model ----------------------------
(***************************************************************************)
(* Model of fits2hdf/io/hdfio.py: export_hdf writes an in-memory list of   *)
(* header/data units to a hierarchical container, read_hdf reads one back. *)
(*                                                                         *)
(* Both functions are synchronous and single-threaded, so each is one      *)
(* action that runs the whole function; its loops are RECURSIVE operators. *)
(* Between the two, the container on disk may be edited by hand (a foreign *)
(* or damaged container), which is what the Craft* actions model.          *)
(*                                                                         *)
(* Header keys and the attribute names of a unit's group are sequences of  *)
(* characters, because write_headers slices them (key[:5], key[:4]) and    *)
(* tests their suffix.  Attribute names of the file and of datasets, which *)
(* the code only ever compares whole, are plain strings.                   *)
(*                                                                         *)
(* Not modelled: the legacy composite "TABLE" layout.  The writer's        *)
(* table_version1 flag is the constant False (line 202), so export_hdf     *)
(* never emits it, and no container considered here carries it.  The type  *)
(* assertion of lines 193-196 is not modelled either: the argument is      *)
(* always a unit list.                                                     *)
(***************************************************************************)
EXTENDS Integers, Sequences, FiniteSets, TLC

\* ----------------------------------------------------------------- bounds
MaxUnits   == 2      \* units in a written list
MaxCols    == 3      \* columns of a table
MaxHdrKeys == 3      \* keys of a header mapping

\* ---------------------------------------------------------------- helpers
Min2(a, b) == IF a < b THEN a ELSE b

Put(f, k, v) == [x \in (DOMAIN f) \cup {k} |-> IF x = k THEN v ELSE f[x]]

Del(f, k) == [x \in (DOMAIN f) \ {k} |-> f[x]]

EmptyMap == [x \in {} |-> x]

Perms(S) ==
    {s \in [1..Cardinality(S) -> S] :
        \A i, j \in 1..Cardinality(S) : i # j => s[i] # s[j]}


\* --------------------------------------------------------------- the keys
k_COMMENT  == <<"_","C","O","M","M","E","N","T">>     \* the suffix "_COMMENT"
k_CLASS    == <<"C","L","A","S","S">>
k_SUBCLASS == <<"S","U","B","C","L","A","S","S">>
k_POSITION == <<"P","O","S","I","T","I","O","N">>
k_TDIM     == <<"T","D","I","M">>
k_TFIELDS  == <<"T","F","I","E","L","D","S">>
k_TUNIT    == <<"T","U","N","I","T">>
k_TTYPE    == <<"T","T","Y","P","E">>
k_TFORM    == <<"T","F","O","R","M">>
k_NAXIS    == <<"N","A","X","I","S">>
k_SIMPLE   == <<"S","I","M","P","L","E">>
k_BITPIX   == <<"B","I","T","P","I","X">>
k_XTENSION == <<"X","T","E","N","S","I","O","N">>
k_OBSERVER == <<"O","B","S","E","R","V","E","R">>
k_RA       == <<"R","A">>
k_TUNIT1   == k_TUNIT \o <<"1">>
k_TDIM2    == k_TDIM \o <<"2">>

\* line 21
restricted_hdf_keywords == {k_CLASS, k_SUBCLASS, k_POSITION}

\* fitsio.restricted_table_keywords (imported on line 17; the table itself is
\* static configuration data outside this file)
restricted_table_keywords == {k_TUNIT, k_TTYPE, k_TFORM, k_NAXIS}

\* fitsio.restricted_header_keywords (imported on line 17)
restricted_header_keywords == {k_SIMPLE, k_BITPIX, k_XTENSION}

\* ---------------------------------------------------- write_headers (23-56)
\* key[:n]
Slice(key, n) == SubSeq(key, 1, Min2(n, Len(key)))

\* key.endswith(suffix)
EndsWith(key, suffix) ==
    /\ Len(key) >= Len(suffix)
    /\ SubSeq(key, Len(key) - Len(suffix) + 1, Len(key)) = suffix

\* key + "_COMMENT"
CommentKey(key) == key \o k_COMMENT

is_comment(key) == EndsWith(key, k_COMMENT)

\* is_table without the test for TFIELDS
is_table_mut(key) ==
    \/ Slice(key, 5) \in restricted_table_keywords
    \/ Slice(key, 4) = k_TDIM

is_table(key) ==
    \/ Slice(key, 5) \in restricted_table_keywords
    \/ Slice(key, 4) = k_TDIM
    \/ key = k_TFIELDS

is_basic(key) == key \in restricted_header_keywords

is_hdf(key) == key \in restricted_hdf_keywords

\* the condition of line 51: the key is skipped
is_skipped(key) == is_comment(key) \/ is_table(key) \/ is_basic(key) \/ is_hdf(key)

\* np.array([value]): a one-element array
NpArray1(value) == <<value>>

\* lines 41-44: the paired comment, '' when the lookup fails
CommentOf(header, key) ==
    IF CommentKey(key) \in DOMAIN header THEN header[CommentKey(key)] ELSE ""

\* one pass of the loop body, lines 39-55

write_header_key(attrs, header, key) ==
    IF is_skipped(key)
    THEN attrs
    ELSE Put(Put(attrs, key, NpArray1(header[key])),
             CommentKey(key), NpArray1(CommentOf(header, key)))

\* the loop of line 38 over the keys still to visit.  The order in which a
\* mapping yields its keys does not matter here: a pass writes only key and
\* key+"_COMMENT", and no visited key that is written ends in "_COMMENT".
RECURSIVE write_headers_loop(_, _, _)
write_headers_loop(attrs, header, keys) ==
    IF keys = {}
    THEN attrs
    ELSE LET key == CHOOSE k \in keys : TRUE
         IN  write_headers_loop(write_header_key(attrs, header, key),
                                header, keys \ {key})

\* write_headers(hduobj, idiobj): the attributes of hduobj afterwards
write_headers(attrs, header) == write_headers_loop(attrs, header, DOMAIN header)


\* ------------------------------------------------------- the container tree
\* A node of the container: a group (attributes and named children) or a
\* dataset (attributes and an array).
Node(kind, attrs, children, data) ==
    [kind |-> kind, attrs |-> attrs, children |-> children, data |-> data]

Group(attrs, children) == Node("group", attrs, children, <<>>)

Dataset(attrs, data) == Node("dataset", attrs, EmptyMap, data)

\* a log line of PrintLog: pp.err / pp.warn
LogLine(level, msg, unit, col) ==
    [level |-> level, msg |-> msg, unit |-> unit, col |-> col]

\* a local variable that has not been assigned yet
Unbound == "<unbound>"

\* Python's None
PyNone == "<None>"

\* the place where the container library raises during a write; "none": nowhere
Fault(unit, stage, col) == [unit |-> unit, stage |-> stage, col |-> col]

NoFault == Fault(0, "none", 0)

\* ------------------------------------------------------ export_hdf (185-313)
\* What a piece of the loop body hands on: the unit's group so far, the local
\* variable dkey, what was logged and the exception raised ("none": none).
Step(gg, dkey, log, exc) == [gg |-> gg, dkey |-> dkey, log |-> log, exc |-> exc]

table_version1 == FALSE      \* line 202

\* lines 272-279: the dataset of one column
ColumnDataset(dval, col_num) ==
    LET a0 == ("CLASS" :> NpArray1("COLUMN")) @@ ("COLUMN_ID" :> NpArray1(col_num))
    IN  Dataset(IF dval.unit # "" THEN Put(a0, "UNITS", NpArray1(dval.unit)) ELSE a0,
                dval.data)

\* the loop of lines 267-279 from column j on; col_num is j - 1.  dkey is
\* assigned by the for statement before the body runs, so a failure in the
\* body of column j leaves dkey naming column j.
RECURSIVE export_columns(_, _, _, _, _)
export_columns(tbl_group, columns, j, dkey, failcol) ==
    IF j > Len(columns)
    THEN [tbl |-> tbl_group, dkey |-> dkey, exc |-> "none"]
    ELSE IF failcol = j
         THEN [tbl |-> tbl_group, dkey |-> columns[j].name, exc |-> "IOError"]
         ELSE export_columns(
                  [tbl_group EXCEPT !.children =
                       Put(@, columns[j].name, ColumnDataset(columns[j], j - 1))],
                  columns, j + 1, columns[j].name, failcol)

\* lines 280-282: the except clause of the table branch.  Formatting the
\* message reads dkey; while dkey is unbound that raises UnboundLocalError
\* inside the handler, which replaces the exception and skips pp.err.
table_except(gg, gkey, dkey, exc) ==
    IF dkey = Unbound
    THEN Step(gg, dkey, <<>>, "UnboundLocalError")
    ELSE Step(gg, dkey, <<LogLine("err", "export", gkey, dkey)>>, exc)

\* the end of the try of lines 261-282, r being how the column loop ended
table_end(gg, gkey, r) ==
    IF r.exc = "none"
    THEN Step([gg EXCEPT !.children = Put(@, "DATA", r.tbl)], r.dkey, <<>>, "none")
    ELSE table_except([gg EXCEPT !.children = Put(@, "DATA", r.tbl)],
                      gkey, r.dkey, r.exc)

\* lines 260-282: the per-column table branch
export_table(gg, unit, dkey, f) ==
    IF f.stage = "data_group"
    THEN table_except(gg, unit.name, dkey, "IOError")
    ELSE table_end(gg, unit.name,
                   export_columns(Group("CLASS" :> NpArray1("DATA_GROUP"), EmptyMap),
                                  unit.columns, 1, dkey,
                                  IF f.stage = "column" THEN f.col ELSE 0))

RECURSIVE SeqMin(_)
SeqMin(s) ==
    IF Len(s) = 1 THEN s[1] ELSE Min2(s[1], SeqMin(Tail(s)))

RECURSIVE SeqMax(_)
SeqMax(s) ==
    IF Len(s) = 1 THEN s[1] ELSE -Min2(-s[1], -SeqMax(Tail(s)))

\* lines 290-294: the attributes of an image dataset
ImageAttrs(data) ==
    LET a0 == ("CLASS" :> NpArray1("IMAGE")) @@ ("IMAGE_VERSION" :> NpArray1("1.2"))
    IN  IF data.ndim = 2
        THEN a0 @@ ("IMAGE_SUBCLASS" :> NpArray1("IMAGE_GRAYSCALE"))
                @@ ("IMAGE_MINMAXRANGE" :> <<SeqMin(data.vals), SeqMax(data.vals)>>)
        ELSE a0

\* lines 285-294: the image branch; nothing here is inside a try
export_image(gg, unit, dkey, f) ==
    IF f.stage = "image"
    THEN Step(gg, dkey, <<>>, "IOError")
    ELSE Step([gg EXCEPT !.children =
                   Put(@, "DATA", Dataset(ImageAttrs(unit.data), unit.data))],
              dkey, <<>>, "none")

\* export_data with the image branch taken for the wrong type
export_data_mut(gg, unit, dkey, f) ==
    IF unit.kind = "Table" /\ ~table_version1
    THEN export_table(gg, unit, dkey, f)
    ELSE IF unit.kind = "Primary"
         THEN export_image(gg, [unit EXCEPT !.data = [ndim |-> 1, vals |-> <<0>>]],
                           dkey, f)
         ELSE Step(gg, dkey, <<>>, "none")

\* lines 223-297: dispatch on the unit's type
export_data(gg, unit, dkey, f) ==
    IF unit.kind = "Table" /\ ~table_version1
    THEN export_table(gg, unit, dkey, f)
    ELSE IF unit.kind = "Image"
         THEN export_image(gg, unit, dkey, f)
         ELSE Step(gg, dkey, <<>>, "none")

\* lines 310-311: the HISTORY dataset
export_history(gg, unit, dkey, f) ==
    IF unit.history = <<>>
    THEN Step(gg, dkey, <<>>, "none")
    ELSE IF f.stage = "history"
         THEN Step(gg, dkey, <<>>, "IOError")
         ELSE Step([gg EXCEPT !.children =
                        Put(@, "HISTORY", Dataset(EmptyMap, unit.history))],
                   dkey, <<>>, "none")

\* lines 308-311: the COMMENT dataset, then the HISTORY dataset
export_comment(gg, unit, dkey, f) ==
    IF unit.comment = <<>>
    THEN export_history(gg, unit, dkey, f)
    ELSE IF f.stage = "comment"
         THEN Step(gg, dkey, <<>>, "IOError")
         ELSE export_history([gg EXCEPT !.children =
                                  Put(@, "COMMENT", Dataset(EmptyMap, unit.comment))],
                             unit, dkey, f)

\* lines 299-311, d being how the data branch ended: the header attributes,
\* then the text datasets.  None of this is inside a try.
export_header_text(d, unit, f) ==
    IF d.exc # "none"
    THEN d
    ELSE IF f.stage = "header"
         THEN Step(d.gg, d.dkey, <<>>, "IOError")
         ELSE export_comment([d.gg EXCEPT !.attrs = write_headers(@, unit.header)],
                             unit, d.dkey, f)

\* lines 217-220: the unit's new group
NewGroup(hdu_id) ==
    Group((k_CLASS :> NpArray1("HDU")) @@ (k_POSITION :> NpArray1(hdu_id)), EmptyMap)

\* the group as the body left it goes into the file
unit_end(file, gkey, t) ==
    [file |-> [file EXCEPT !.groups = Put(@, gkey, t.gg)],
     dkey |-> t.dkey, log |-> t.log, exc |-> t.exc]

\* lines 214-311: the body of the loop over the units, for the unit whose
\* running counter is hdu_id
export_unit(file, unit, hdu_id, dkey, f) ==
    IF f.stage = "group"
    THEN [file |-> file, dkey |-> dkey, log |-> <<>>, exc |-> "IOError"]
    ELSE unit_end(file, unit.name,
                  export_header_text(export_data(NewGroup(hdu_id), unit, dkey, f),
                                     unit, f))

\* the loop of line 213 from unit i on (hdu_id is i in the body), r being how
\* the body ended for unit i - 1
RECURSIVE export_loop(_, _, _, _, _)
export_loop(r, idi, i, log, fault) ==
    IF r.exc # "none" \/ i > Len(idi)
    THEN [file |-> r.file, log |-> log \o r.log, exc |-> r.exc]
    ELSE export_loop(export_unit(r.file, idi[i], i, r.dkey,
                                 IF fault.unit = i THEN fault ELSE NoFault),
                     idi, i + 1, log \o r.log, fault)

\* h.close() (line 313) is the last statement and nothing guards it: only
\* the run that raises nothing reaches it

export_end(r) ==
    [file |-> r.file, log |-> r.log, exc |-> r.exc, open |-> (r.exc # "none")]

\* export_hdf(idi_hdu, outfile): the container left on disk, whether the
\* handle h is still open, what was logged and the exception that reaches
\* the caller
export_hdf(idi, fault) ==
    export_end(export_loop(
        [file |-> [attrs |-> ("CLASS" :> NpArray1("HDFITS")), groups |-> EmptyMap],
         dkey |-> Unbound, log |-> <<>>, exc |-> "none"],
        idi, 1, <<>>, fault))

\* -------------------------------------------------------- read_hdf (58-182)
\* values[0] of an attribute array
Item0(values) == values[1]

\* np.asscalar of a numpy scalar: the Python scalar of the same value
AsScalar(x) == x

\* attrs[name] == s for a tag: the comparison of a one-element array with a
\* string
TagIs(attrs, name, s) == attrs[name] = NpArray1(s)

\* class_check that lets the KeyError of line 71 through
class_check_mut(attrs) ==
    IF "CLASS" \notin DOMAIN attrs
    THEN [log |-> <<LogLine("warn", "No CLASS defined", "", "")>>, exc |-> "KeyError"]
    ELSE [log |-> IF \E i \in DOMAIN attrs["CLASS"] : attrs["CLASS"][i] = "HDFITS"
                  THEN <<>>
                  ELSE <<LogLine("warn", "Not an HDFITS file", "", "")>>,
          exc |-> "none"]

\* lines 68-76: the top-level class tag.  cls starts as the string "None";
\* "HDFITS" in "None" is a substring test and is false, "HDFITS" in an array
\* asks whether some element equals it.  An attribute holds one or more
\* scalars, so cls[0] in the warning of line 76 is always there.
class_check(attrs) ==
    IF "CLASS" \notin DOMAIN attrs
    THEN [log |-> <<LogLine("warn", "No CLASS defined", "", ""),
                    LogLine("warn", "Not an HDFITS file", "", "")>>,
          exc |-> "none"]
    ELSE [log |-> IF \E i \in DOMAIN attrs["CLASS"] : attrs["CLASS"][i] = "HDFITS"
                  THEN <<>>
                  ELSE <<LogLine("warn", "Not an HDFITS file", "", "")>>,
          exc |-> "none"]

\* lines 80-83: the mapping position -> group name, filled while the
\* container lists its groups in the order keys; a later group with the same
\* position replaces the earlier one
RECURSIVE read_order(_, _, _)
read_order(groups, keys, hdu_order) ==
    IF keys = <<>>
    THEN [hdu_order |-> hdu_order, exc |-> "none"]
    ELSE IF k_POSITION \notin DOMAIN groups[Head(keys)].attrs
         THEN [hdu_order |-> hdu_order, exc |-> "KeyError"]
         ELSE read_order(groups, Tail(keys),
                         Put(hdu_order,
                             Item0(groups[Head(keys)].attrs[k_POSITION]),
                             Head(keys)))

\* for ... in d.items(): the keys of the mapping d in the order it yields
\* them.  The code does not sort; the order is the mapping's own, which the
\* language leaves open.  rank lists every possible key in that order.
DictItems(d, rank) == SelectSeq(rank, LAMBDA k : k \in DOMAIN d)

\* h_vals without the filter of line 92
h_vals_mut(attrs) ==
    [key \in DOMAIN attrs |-> AsScalar(Item0(attrs[key]))]

\* lines 90-93: the header mapping from the group's attributes
h_vals(attrs) ==
    [key \in {k \in DOMAIN attrs : k \notin restricted_hdf_keywords} |->
        AsScalar(Item0(attrs[key]))]

\* lines 100-107: an optional text child
TextChild(group, name) ==
    IF name \in DOMAIN group.children THEN group.children[name].data ELSE PyNone

\* a unit of the list, as the add_*_hdu calls attach it
Unit(name, kind, header, columns, data, comment, history) ==
    [name |-> name, kind |-> kind, header |-> header, columns |-> columns,
     data |-> data, comment |-> comment, history |-> history]

\* idi.IdiColumn(name, data, unit=unit)
Column(name, unit, data) == [name |-> name, unit |-> unit, data |-> data]

\* lines 143-148: the mapping column id -> column name of a DATA group.  The
\* ids of the datasets of one DATA group are distinct in every container
\* considered, so the order in which the group lists them is immaterial.
RECURSIVE read_col_order(_, _, _)
read_col_order(cols, names, col_order) ==
    IF names = {}
    THEN col_order
    ELSE LET col_name == CHOOSE n \in names : TRUE
         IN  read_col_order(cols, names \ {col_name},
                 Put(col_order, Item0(cols[col_name].attrs["COLUMN_ID"]), col_name))

\* lines 155-162: one column read back
read_column(col_name, col_dset) ==
    Column(col_name,
           IF "UNITS" \in DOMAIN col_dset.attrs
           THEN Item0(col_dset.attrs["UNITS"]) ELSE PyNone,
           col_dset.data)

\* lines 152-163: the columns, in the order the mapping yields its ids
RECURSIVE read_columns(_, _, _)
read_columns(cols, col_order, ids) ==
    IF ids = <<>>
    THEN <<>>
    ELSE <<read_column(col_order[Head(ids)], cols[col_order[Head(ids)]])>>
         \o read_columns(cols, col_order, Tail(ids))

\* lines 138-166: the per-column table branch
read_table(DATA, crank, col_order) ==
    read_columns(DATA.children, col_order, DictItems(col_order, crank))

\* lines 112-174: dispatch on the DATA child: the units attached to the list
\* (none on the branch of line 173) and what is warned

read_data(group, gname, header, crank) ==
    IF "DATA" \notin DOMAIN group.children
    THEN [add |-> <<Unit(gname, "Primary", header, <<>>, PyNone,
                         TextChild(group, "COMMENT"), TextChild(group, "HISTORY"))>>,
          log |-> <<>>]
    ELSE IF TagIs(group.children["DATA"].attrs, "CLASS", "DATA_GROUP")
    THEN [add |-> <<Unit(gname, "Table", header,
                         read_table(group.children["DATA"], crank,
                                    read_col_order(group.children["DATA"].children,
                                        DOMAIN group.children["DATA"].children,
                                        EmptyMap)),
                         PyNone,
                         TextChild(group, "COMMENT"), TextChild(group, "HISTORY"))>>,
          log |-> <<>>]
    ELSE IF TagIs(group.children["DATA"].attrs, "CLASS", "IMAGE")
    THEN [add |-> <<Unit(gname, "Image", header, <<>>, group.children["DATA"].data,
                         TextChild(group, "COMMENT"), TextChild(group, "HISTORY"))>>,
          log |-> <<>>]
    ELSE [add |-> <<>>,
          log |-> <<LogLine("warn", "Cannot understand data class", gname, "")>>]

\* line 176: hdulist[gname], a mapping lookup, which raises KeyError when the
\* branch taken attached no unit under that name.  r is the run so far, d
\* what the dispatch did.
group_end(r, d) ==
    [hdulist |-> r.hdulist \o d.add, log |-> r.log \o d.log,
     exc |-> IF d.add = <<>> THEN "KeyError" ELSE "none"]

\* lines 86-176: the body of the loop over the groups
read_group(r, group, gname, crank) ==
    group_end(r, read_data(group, gname, h_vals(group.attrs), crank))

\* the loop of line 85 over the positions still to visit, r being the run
\* so far
RECURSIVE read_groups(_, _, _, _, _)
read_groups(r, groups, hdu_order, todo, crank) ==
    IF r.exc # "none" \/ todo = <<>>
    THEN r
    ELSE read_groups(read_group(r, groups[hdu_order[Head(todo)]],
                                hdu_order[Head(todo)], crank),
                     groups, hdu_order, Tail(todo), crank)

\* lines 85-176, o being how the loop of lines 80-83 ended
read_from_order(r, o, groups, prank, crank) ==
    IF o.exc # "none"
    THEN [r EXCEPT !.exc = o.exc]
    ELSE read_groups(r, groups, o.hdu_order, DictItems(o.hdu_order, prank), crank)

\* lines 79-176, c being how the check of the class tag ended
read_from_class(c, groups, keys, prank, crank) ==
    IF c.exc # "none"
    THEN [hdulist |-> <<>>, log |-> c.log, exc |-> c.exc]
    ELSE read_from_order([hdulist |-> <<>>, log |-> c.log, exc |-> "none"],
                         read_order(groups, keys, EmptyMap), groups, prank, crank)

\* h.close() (line 180) is reached only when nothing raised
read_end(r) ==
    [hdulist |-> r.hdulist, log |-> r.log, exc |-> r.exc, open |-> (r.exc # "none")]

\* read_hdf(infile): the list returned (or built so far when it raises),
\* whether the handle h is still open, what was logged, the exception that
\* reaches the caller.  keys is the order in which the container lists its
\* groups; prank and crank are the orders in which the two mappings yield
\* their keys.
read_hdf(file, keys, prank, crank) ==
    read_end(read_from_class(class_check(file.attrs), file.groups, keys, prank, crank))

\* ------------------------------------------------------------ the inputs
NamePool == <<"PRIMARY", "SRC1", "IMG", "ANT">>

ColPool == <<"FLUX", "RA", "DEC", "TIME">>

UnitNames == {NamePool[i] : i \in 1..MaxUnits}

ColNames == {ColPool[i] : i \in 1..MaxCols}

\* injective sequences over S of length at most n
InjSeqs(S, n) ==
    UNION {{s \in [1..k -> S] : \A i, j \in 1..k : i # j => s[i] # s[j]} :
           k \in 0..Min2(n, Cardinality(S))}

InputColumn(name) ==
    Column(name, IF name = "FLUX" THEN "Jy" ELSE "", <<1, 2, 3>>)

Image2D == [ndim |-> 2, vals |-> <<3, 1, 2, 5>>]

Image1D == [ndim |-> 1, vals |-> <<4, 2>>]

PlainHeader == (k_OBSERVER :> "Smith")

HdrValues == {"Smith", "42"}

HeaderKeyPool ==
    { k_OBSERVER, k_RA, k_TUNIT1, k_TDIM2, k_TFIELDS, k_SIMPLE, k_CLASS,
      k_POSITION, CommentKey(k_OBSERVER), CommentKey(k_SIMPLE) }

\* the header mappings with at most MaxHdrKeys keys
Headers ==
    UNION {[K -> HdrValues] :
           K \in {K \in SUBSET HeaderKeyPool : Cardinality(K) <= MaxHdrKeys}}

MakeUnit(name, kind, header, colnames, image, comment, history) ==
    Unit(name, kind, header,
         IF kind = "Table" THEN [i \in DOMAIN colnames |-> InputColumn(colnames[i])]
                           ELSE <<>>,
         IF kind = "Image" THEN image ELSE PyNone,
         comment, history)

Kinds == {"Primary", "Image", "Table"}

\* lists of units with distinct names, each of any type
UnitLists ==
    UNION {{[i \in DOMAIN names |->
                MakeUnit(names[i], kinds[i], PlainHeader, <<"FLUX">>, Image2D,
                         <<>>, <<>>)] :
             kinds \in [DOMAIN names -> Kinds]} :
           names \in InjSeqs(UnitNames, MaxUnits)}

\* one table, its columns in any order
TableLists ==
    {<<MakeUnit(NamePool[1], "Table", PlainHeader, cs, PyNone, <<>>, <<>>)>> :
       cs \in InjSeqs(ColNames, MaxCols)}

\* one unit with any header
HeaderLists ==
    {<<MakeUnit(NamePool[1], "Primary", h, <<>>, PyNone, <<>>, <<>>)>> :
       h \in Headers}

\* one unit with or without comment and history text
TextLists ==
    {<<MakeUnit(NamePool[1], kind, PlainHeader, <<"FLUX">>, Image1D, c, h)>> :
       kind \in Kinds, c \in {<<>>, <<"a note">>}, h \in {<<>>, <<"made by">>}}

\* the places where a write of the list idi can fail
Faults(idi) ==
    UNION {
      {Fault(i, "group", 0)}
      \cup (IF \E k \in DOMAIN idi[i].header : ~is_skipped(k)
            THEN {Fault(i, "header", 0)} ELSE {})
      \cup (IF idi[i].comment # <<>> THEN {Fault(i, "comment", 0)} ELSE {})
      \cup (IF idi[i].history # <<>> THEN {Fault(i, "history", 0)} ELSE {})
      \cup (IF idi[i].kind = "Table"
            THEN {Fault(i, "data_group", 0)}
                 \cup {Fault(i, "column", j) : j \in DOMAIN idi[i].columns}
            ELSE {})
      \cup (IF idi[i].kind = "Image" THEN {Fault(i, "image", 0)} ELSE {})
      : i \in DOMAIN idi }

\* -------------------------------------------------------- the state machine
VARIABLES
    idi_hdu,    \* the unit list handed to export_hdf
    fault,      \* where the container library raised during the write
    pc,         \* "init", "written", "wfailed", "read"
    file,       \* the container on disk
    wres,       \* how export_hdf ended: handle open, log, exception
    crafted,    \* what was edited by hand after the write, "no" if nothing
    rres,       \* how read_hdf ended: list, handle open, log, exception
    ref         \* how read_hdf ends on the same container tagged HDFITS

vars == <<idi_hdu, fault, pc, file, wres, crafted, rres, ref>>

NoFile == [attrs |-> EmptyMap, groups |-> EmptyMap]

NoRun == [hdulist |-> <<>>, log |-> <<>>, exc |-> "none", open |-> FALSE]

Init ==
    /\ \/ idi_hdu \in UnitLists
       \/ idi_hdu \in TableLists
       \/ idi_hdu \in HeaderLists
       \/ idi_hdu \in TextLists
    /\ fault = NoFault
    /\ pc = "init"
    /\ file = NoFile
    /\ wres = [log |-> <<>>, exc |-> "none", open |-> FALSE]
    /\ crafted = "no"
    /\ rres = NoRun
    /\ ref = NoRun

\* export_hdf has ended as r says
ExportEnds(r) ==
    /\ file' = r.file
    /\ wres' = [log |-> r.log, exc |-> r.exc, open |-> r.open]
    /\ pc' = IF r.exc = "none" THEN "written" ELSE "wfailed"

\* export_hdf runs and the container library raises nowhere
Export ==
    /\ pc = "init"
    /\ ExportEnds(export_hdf(idi_hdu, NoFault))
    /\ UNCHANGED <<idi_hdu, fault, crafted, rres, ref>>

\* export_hdf runs and the container library raises at one place
ExportFailing ==
    /\ pc = "init"
    /\ \E f \in Faults(idi_hdu) :
         /\ fault' = f
         /\ ExportEnds(export_hdf(idi_hdu, f))
    /\ UNCHANGED <<idi_hdu, crafted, rres, ref>>

\* the written container loses its top-level class tag or gets a foreign one
CraftTopClass ==
    /\ pc = "written" /\ crafted = "no"
    /\ \/ file' = [file EXCEPT !.attrs = Del(@, "CLASS")]
       \/ \E v \in {<<"GROUP">>, <<"GROUP", "NXroot">>} :
            file' = [file EXCEPT !.attrs = Put(@, "CLASS", v)]
    /\ crafted' = "class"
    /\ UNCHANGED <<idi_hdu, fault, pc, wres, rres, ref>>

\* a group of the written container loses its position tag, or gets another
\* position (possibly that of another group)
CraftPosition ==
    /\ pc = "written" /\ crafted = "no"
    /\ \E g \in DOMAIN file.groups :
         \/ file' = [file EXCEPT !.groups[g].attrs = Del(@, k_POSITION)]
         \/ \E p \in 1..(Len(idi_hdu) + 1) :
              /\ file.groups[g].attrs[k_POSITION] # NpArray1(p)
              /\ file' = [file EXCEPT !.groups[g].attrs =
                                          Put(@, k_POSITION, NpArray1(p))]
    /\ crafted' = "position"
    /\ UNCHANGED <<idi_hdu, fault, pc, wres, rres, ref>>

\* the DATA node of a group of the written container gets an unknown class
CraftDataClass ==
    /\ pc = "written" /\ crafted = "no"
    /\ \E g \in DOMAIN file.groups :
         /\ "DATA" \in DOMAIN file.groups[g].children
         /\ file' = [file EXCEPT !.groups[g].children["DATA"].attrs =
                                     Put(@, "CLASS", NpArray1("FOO"))]
    /\ crafted' = "dataclass"
    /\ UNCHANGED <<idi_hdu, fault, pc, wres, rres, ref>>

\* every position tag and every column id of the container
Positions(f) ==
    {Item0(f.groups[g].attrs[k_POSITION]) :
       g \in {g \in DOMAIN f.groups : k_POSITION \in DOMAIN f.groups[g].attrs}}

ColumnIds(f) ==
    UNION {{Item0(f.groups[g].children["DATA"].children[c].attrs["COLUMN_ID"]) :
              c \in DOMAIN f.groups[g].children["DATA"].children} :
           g \in {g \in DOMAIN f.groups : "DATA" \in DOMAIN f.groups[g].children}}

Tagged(f) == [f EXCEPT !.attrs = Put(@, "CLASS", NpArray1("HDFITS"))]

\* read_hdf runs on the container
Read ==
    /\ pc = "written"
    /\ \E keys \in Perms(DOMAIN file.groups),
          prank \in Perms(Positions(file)),
          crank \in Perms(ColumnIds(file)) :
         /\ rres' = read_hdf(file, keys, prank, crank)
         /\ ref' = read_hdf(Tagged(file), keys, prank, crank)
    /\ pc' = "read"
    /\ UNCHANGED <<idi_hdu, fault, file, wres, crafted>>

Next ==
    \/ Export
    \/ ExportFailing
    \/ CraftTopClass
    \/ CraftPosition
    \/ CraftDataClass
    \/ Read

Spec == Init /\ [][Next]_vars

\* ------------------------------------------------------------- properties
\* the names of a sequence of units or of columns, in order
NamesOf(seq) == [i \in DOMAIN seq |-> seq[i].name]

\* the container is as export_hdf left it, and read_hdf has run on it
ReadBack == pc = "read" /\ crafted = "no"

\* the unit read back under the name n
ReadUnits(n) == {rres.hdulist[i] : i \in {i \in DOMAIN rres.hdulist :
                                              rres.hdulist[i].name = n}}

\* The keyword classes, as the format defines them.
TableStructural(k) ==
    \/ Slice(k, 5) \in restricted_table_keywords
    \/ Slice(k, 4) = k_TDIM
    \/ k = k_TFIELDS
    \/ EndsWith(k, k_COMMENT)

BasicStandard(k) == k \in restricted_header_keywords

ContainerReserved(k) == k \in {k_CLASS, k_SUBCLASS, k_POSITION}

UserClass(k) == ~TableStructural(k) /\ ~BasicStandard(k) /\ ~ContainerReserved(k)

\* k is the comment key paired with a User-class key of the header H
PairedComment(k, H) == \E u \in DOMAIN H : UserClass(u) /\ k = CommentKey(u)

\* C1: reading back what export_hdf wrote raises nothing and yields the units
\* in the name order of the written list, whatever order the container lists
\* its groups in and whatever order the position mapping yields its keys in.
C1_RoundTripOrder ==
    ReadBack => /\ rres.exc = "none"
                /\ NamesOf(rres.hdulist) = NamesOf(idi_hdu)

\* C2: reading back a written table yields its columns in the written order,
\* whatever order the column-id mapping yields its keys in.
C2_ColumnOrder ==
    ReadBack =>
      \A i \in DOMAIN idi_hdu :
        idi_hdu[i].kind = "Table" =>
          /\ ReadUnits(idi_hdu[i].name) # {}
          /\ \A u \in ReadUnits(idi_hdu[i].name) :
               NamesOf(u.columns) = NamesOf(idi_hdu[i].columns)

\* the header read back for a written header H of User-class keys and their
\* paired comments
ExpectedHeader(H) ==
    LET U == {k \in DOMAIN H : UserClass(k)}
    IN  [k \in U \cup {CommentKey(u) : u \in U} |->
           IF k \in U THEN H[k]
           ELSE IF k \in DOMAIN H THEN H[k] ELSE ""]

\* every key of H is a User-class key or the comment paired with one
UserHeader(H) == \A k \in DOMAIN H : UserClass(k) \/ PairedComment(k, H)

\* C3: a header of User-class keys (with or without their paired comments)
\* is read back exactly: each key with its value, each paired comment with the
\* original comment or the empty string, and nothing else.
C3_HeaderRoundTrip ==
    ReadBack =>
      \A i \in DOMAIN idi_hdu :
        UserHeader(idi_hdu[i].header) =>
          /\ ReadUnits(idi_hdu[i].name) # {}
          /\ \A u \in ReadUnits(idi_hdu[i].name) :
               u.header = ExpectedHeader(idi_hdu[i].header)

C3_Witness ==
    /\ ReadBack
    /\ Len(idi_hdu) = 1
    /\ DOMAIN idi_hdu[1].header = {k_OBSERVER, k_RA}
    /\ Len(rres.hdulist) = 1
    /\ rres.hdulist[1].header[CommentKey(k_RA)] = ""
    /\ rres.hdulist[1].header[k_RA] = idi_hdu[1].header[k_RA]

\* the attributes of the group of unit i that the header copy wrote: those
\* the new group did not have, or has with another value
HeaderWritten(i) ==
    LET attrs == file.groups[idi_hdu[i].name].attrs
        fresh == NewGroup(i).attrs
    IN  {a \in DOMAIN attrs : a \notin DOMAIN fresh \/ attrs[a] # fresh[a]}

Written == pc = "written" /\ crafted = "no"

\* C4 as stated: no key of H outside the User class, keys ending in _COMMENT
\* included, is written by the header copy.
C4_NoStructuralKey ==
    Written =>
      \A i \in DOMAIN idi_hdu :
        \A k \in DOMAIN idi_hdu[i].header :
          ~UserClass(k) => k \notin HeaderWritten(i)

\* C4 amended: a key of H outside the User class is written by the header
\* copy only when it is the comment key paired with a User-class key of H,
\* and then it holds that comment; the header copy writes the User-class keys
\* of H and their paired comment names and nothing else.
C4_NoStructuralKeyButPairedComment ==
    Written =>
      \A i \in DOMAIN idi_hdu :
        LET H == idi_hdu[i].header IN
        /\ \A k \in DOMAIN H :
             (~UserClass(k) /\ k \in HeaderWritten(i)) =>
                /\ PairedComment(k, H)
                /\ file.groups[idi_hdu[i].name].attrs[k] = NpArray1(H[k])
        /\ HeaderWritten(i) = DOMAIN ExpectedHeader(H)

C4_Witness ==
    /\ Written
    /\ Len(idi_hdu) = 1
    /\ DOMAIN idi_hdu[1].header = {k_TFIELDS, k_OBSERVER}
    /\ HeaderWritten(1) = {k_OBSERVER, CommentKey(k_OBSERVER)}

\* C5: a DATA node of unknown class makes read_hdf warn, raise nothing and
\* return a unit for every group, the one of unknown class with its header.
C5_UnknownDataClass ==
    (pc = "read" /\ crafted = "dataclass") =>
      /\ rres.exc = "none"
      /\ \E l \in DOMAIN rres.log : rres.log[l].level = "warn"
      /\ \A g \in DOMAIN file.groups :
           \E i \in DOMAIN rres.hdulist :
             /\ rres.hdulist[i].name = g
             /\ rres.hdulist[i].header = h_vals(file.groups[g].attrs)

\* C6: neither export_hdf nor read_hdf ends, normally or by raising, with
\* the container handle still open.
C6_HandleReleased ==
    /\ pc \in {"written", "wfailed"} => ~wres.open
    /\ pc = "read" => ~rres.open

\* some group has no position tag, or two groups have the same
PositionAnomaly ==
    \/ \E g \in DOMAIN file.groups : k_POSITION \notin DOMAIN file.groups[g].attrs
    \/ \E g1, g2 \in DOMAIN file.groups :
         /\ g1 # g2
         /\ k_POSITION \in DOMAIN file.groups[g1].attrs
         /\ k_POSITION \in DOMAIN file.groups[g2].attrs
         /\ file.groups[g1].attrs[k_POSITION] = file.groups[g2].attrs[k_POSITION]

\* C7: with a missing or duplicated position tag read_hdf warns, raises
\* nothing and still returns a unit for every group.
C7_PositionAnomaly ==
    (pc = "read" /\ PositionAnomaly) =>
      /\ rres.exc = "none"
      /\ \E l \in DOMAIN rres.log : rres.log[l].level = "warn"
      /\ \A g \in DOMAIN file.groups :
           \E i \in DOMAIN rres.hdulist : rres.hdulist[i].name = g

\* C8: a write that fails raises, after an error message that names the unit
\* being written and, when a column failed, that column.
C8_FailureNamed ==
    pc = "wfailed" =>
      /\ wres.exc # "none"
      /\ \E l \in DOMAIN wres.log :
           /\ wres.log[l].level = "err"
           /\ wres.log[l].unit = idi_hdu[fault.unit].name
           /\ fault.stage = "column" =>
                wres.log[l].col = idi_hdu[fault.unit].columns[fault.col].name

\* the top-level class tag is missing or does not hold the marker
BadTag ==
    \/ "CLASS" \notin DOMAIN file.attrs
    \/ \A i \in DOMAIN file.attrs["CLASS"] : file.attrs["CLASS"][i] # "HDFITS"

\* C9: with the top-level class tag missing or foreign read_hdf warns of the
\* mismatch and ends as it does on the same container tagged HDFITS: the
\* same exception or none, the same list.
C9_FormatTag ==
    (pc = "read" /\ BadTag) =>
      /\ \E l \in DOMAIN rres.log :
           rres.log[l] = LogLine("warn", "Not an HDFITS file", "", "")
      /\ rres.exc = ref.exc
      /\ rres.hdulist = ref.hdulist

C9_Witness ==
    /\ pc = "read"
    /\ "CLASS" \notin DOMAIN file.attrs
    /\ rres.exc = "none"
    /\ Len(rres.hdulist) = MaxUnits

\* C10: a written Table group has a DATA child of class DATA_GROUP, a written
\* Image group a DATA child of class IMAGE, a written Primary group no DATA
\* child; and every unit is read back as the type it was written as.
C10_DataNode ==
    /\ Written =>
         \A i \in DOMAIN idi_hdu :
           LET ch == file.groups[idi_hdu[i].name].children IN
           CASE idi_hdu[i].kind = "Table" ->
                  "DATA" \in DOMAIN ch /\ ch["DATA"].attrs["CLASS"] = <<"DATA_GROUP">>
             [] idi_hdu[i].kind = "Image" ->
                  "DATA" \in DOMAIN ch /\ ch["DATA"].attrs["CLASS"] = <<"IMAGE">>
             [] OTHER -> "DATA" \notin DOMAIN ch
    /\ ReadBack =>
         /\ rres.exc = "none"
         /\ Len(rres.hdulist) = Len(idi_hdu)
         /\ \A i \in DOMAIN idi_hdu :
              /\ ReadUnits(idi_hdu[i].name) # {}
              /\ \A u \in ReadUnits(idi_hdu[i].name) : u.kind = idi_hdu[i].kind

C10_Witness ==
    /\ ReadBack
    /\ Len(idi_hdu) = MaxUnits
    /\ \E i, j \in DOMAIN idi_hdu :
         /\ idi_hdu[i].kind = "Table" /\ idi_hdu[j].kind = "Image"
         /\ \E u \in ReadUnits(idi_hdu[i].name) : u.kind = "Table"
         /\ \E u \in ReadUnits(idi_hdu[j].name) : u.kind = "Image"

=============================================================================
